---- MODULE Spec2Model ----
(***************************************************************************)
(* A model of astrbot_plugin_asmr (src/main.py).                           *)
(*                                                                         *)
(* Part 1: the endpoint rotator and fetch_with_retry (SpecFetch).          *)
(* Part 2: the download selection session, the batch of download workers   *)
(*         and the resumable per-file download (SpecDownload for batches   *)
(*         of several files, SpecResume for one file of any size,          *)
(*         SpecFolders for a work with the same file name in several       *)
(*         folders).                                                       *)
(* Part 3: the listing: recursively_transform_data over track trees        *)
(*         (SpecFlatten) and the resolution of a reply into the batch      *)
(*         (SpecSelect).                                                   *)
(* Part 4: the command handlers up to their reply session (SpecCommand),   *)
(*         the download command from its tracks request to the end of its  *)
(*         batch (SpecDownloadCommand) and the track-choice session of the *)
(*         play and random commands (SpecTrack).                           *)
(***************************************************************************)
EXTENDS Integers, Sequences, FiniteSets, TLC

(***************************************************************************)
(* Bounds of the model.                                                    *)
(***************************************************************************)
\* largest mirror list explored (BASE_URLS holds 4 entries)
MaxMirrors == 4
\* largest max_retries the fetch calls are started with (the default is 4)
MaxRetries == 4
\* overlapping fetch_with_retry calls
MaxCalls == 2
\* largest listing (all_audio_files) of a download session
MaxFiles == 3
\* largest max_concurrent_downloads explored (the default is 3)
MaxConcurrent == 2
\* largest declared size of a file, in chunks
MaxSize == 2
\* longest reply, in comma-separated tokens
MaxTokens == 2
\* replies the session_waiter hands to the handler before the model stops
MaxReplies == 2
\* largest track tree (the JSON of /api/tracks), in nodes
MaxNodes == 4
\* times the download command lists the same work
MaxListings == 2
\* commands handled one after another
MaxCommands == 2

VARIABLES
    \* ---- fetch layer -------------------------------------------------
    base_urls,          \* len(self.base_urls)
    current_api_index,  \* self.current_api_index
    fpc,                \* per call: "idle" | "loop" | "inflight" | "done"
    max_retries,        \* per call: the max_retries argument
    attempt,            \* per call: the loop variable of `for attempt in range`
    current_api,        \* per call: the local current_api of the running attempt
    nSent,              \* per call: number of session.get calls issued
    fresult,            \* per call: the value returned ("pending" before return)
    failedTotal,        \* failed attempts of all calls so far
    \* ---- download session ---------------------------------------------
    files,              \* all_audio_files: the listing, token I<n> is files[n]
    max_concurrent_downloads,
    disk,               \* target path -> NoFile or the bytes of the file
    disk0,              \* the disk when the session started
    future,             \* controller.future: "pending" | "stopped" | "timeout"
    hpc,                \* selection_waiter: "idle" | "gather"
    nHandled,           \* replies handed to selection_waiter so far
    ev_sender,          \* ev.get_sender_id() of the reply handled last
    exitPath,           \* how selection_waiter was left last
    stopCalled,         \* controller.stop() calls so far
    msgs,               \* messages sent to the chat, in order
    final_files,        \* the batch: indices into files, in submission order
    wpc,                \* per worker: "none" | "new" | "sem" | "get" | "body"
                        \*             | "true" | "false" | "raised"
    mode,               \* per worker: the local mode, "wb" | "ab"
    headers_range,      \* per worker: start of the Range header, or NoRange
    reqRange,           \* per worker: Range start of every GET issued, in order
    acquired,           \* per worker: entered `async with semaphore`
    bodyLeft,           \* per worker: chunks of the response not yet read
    semaphore,          \* asyncio.Semaphore: its _value
    sessionClosed,      \* the batch's aiohttp.ClientSession was closed
    \* ---- listing and selection ----------------------------------------
    data,               \* the track tree recursively_transform_data is given
    listings,           \* the all_audio_files of every listing made so far
    choice,             \* the reply whose selection is resolved
    resolved,           \* what the replies resolved so far came to, in order
    \* ---- command handlers ---------------------------------------------
    nsfw,               \* self.nsfw (the enable_nsfw setting)
    command,            \* the command being handled
    args,               \* args[0] of the command: the identifier as typed
    selected_index,     \* play: "None", or "valid" for a track number given
    work,               \* what the catalog holds for the work asked for
    cpc,                \* the handler's position
    sent,               \* messages of the running command to the chat
    propagated,         \* an exception left the running command's handler
    requests,           \* the url paths given to fetch_with_retry so far
    runs,               \* the finished commands: the decisive fetch outcome
                        \* and the message that reported it
    \* ---- track-choice session of the play and random commands ---------
    keywords,           \* state["keywords"]: the titles of the tracks listed
    message_str,        \* ev.message_str of the reply track_waiter handled last
    played              \* the indices _play_track was called with, in order

fetchVars == <<base_urls, current_api_index, fpc, max_retries, attempt,
               current_api, nSent, fresult, failedTotal>>

sessionVars == <<future, hpc, nHandled, ev_sender, exitPath, stopCalled, msgs,
                 final_files, sessionClosed>>

workerVars == <<wpc, mode, headers_range, reqRange, acquired, bodyLeft,
                semaphore, disk>>

configVars == <<files, max_concurrent_downloads, disk0>>

downloadVars == <<configVars, sessionVars, workerVars>>

listingVars == <<data, listings, choice, resolved>>

commandVars == <<nsfw, command, args, selected_index, work, cpc, sent,
                 propagated, requests, runs>>

trackVars == <<keywords, message_str, played>>

vars == <<fetchVars, downloadVars, listingVars, commandVars, trackVars>>

\* what the fetch layer and the download session leave alone
fetchFrame == <<downloadVars, listingVars, commandVars, trackVars>>

downloadFrame == <<fetchVars, listingVars, commandVars, trackVars>>

Calls == 1..MaxCalls

(***************************************************************************)
(* HTTP responses a mirror can give to one session.get.                    *)
(*   exc    : the request raised (transport error, timeout)                *)
(*   status : the HTTP status when it did not raise                        *)
(*   body   : "garbage" is not JSON, "null" is the JSON literal null,      *)
(*            "doc" is a JSON document (object or array)                   *)
(***************************************************************************)
Bodies == {"garbage", "null", "doc"}

Responses ==
    {[exc |-> TRUE, status |-> 0, body |-> "garbage"]} \cup
    {[exc |-> FALSE, status |-> s, body |-> "doc"] : s \in {404, 500}} \cup
    {[exc |-> FALSE, status |-> 200, body |-> b] : b \in Bodies}

\* response.json(): raises on a body that is not JSON, maps JSON null to
\* Python's None and a document to the parsed object.
JsonRaises(body) == body = "garbage"

JsonValue(body) == IF body = "null" THEN "None" ELSE "parsed"

\* the attempt `try` block ends in the return of line 148
AttemptSucceeds(r) == ~r.exc /\ r.status = 200 /\ ~JsonRaises(r.body)

\* rotate_api without the modulo: the index runs off the list
rotate_api_nowrap(idx, n) == idx + 1

\* a rotation that skips a mirror
rotate_api_skip(idx, n) == (idx + 2) % n

\* rotate_api: (self.current_api_index + 1) % len(self.base_urls)
rotate_api(idx, n) == (idx + 1) % n

\* get_current_api: self.base_urls[self.current_api_index]; mirrors are
\* named by their position in base_urls, an index outside the list raises
\* IndexError ("IndexError").
get_current_api(idx, n) == IF idx \in 0..(n - 1) THEN idx ELSE "IndexError"

FetchIdle ==
    /\ current_api_index = 0
    /\ fpc = [c \in Calls |-> "idle"]
    /\ attempt = [c \in Calls |-> 0]
    /\ current_api = [c \in Calls |-> 0]
    /\ nSent = [c \in Calls |-> 0]
    /\ fresult = [c \in Calls |-> "pending"]
    /\ failedTotal = 0

\* every call site passes the same max_retries (the default); the mirror
\* list is any non-empty list
FetchConfig ==
    /\ base_urls \in 1..MaxMirrors
    /\ \E n \in 0..MaxRetries : max_retries = [c \in Calls |-> n]

\* a command handler calls fetch_with_retry(url_path): errors = [], the
\* client session is opened, the loop starts
FetchCall(c) ==
    /\ fpc[c] = "idle"
    /\ fpc' = [fpc EXCEPT ![c] = "loop"]
    /\ UNCHANGED <<base_urls, current_api_index, max_retries, attempt,
                   current_api, nSent, fresult, failedTotal>>

\* top of the loop body: read the cursor, build the url, issue session.get
FetchSend(c) ==
    /\ fpc[c] = "loop"
    /\ attempt[c] < max_retries[c]
    /\ current_api' = [current_api EXCEPT
                         ![c] = get_current_api(current_api_index, base_urls)]
    /\ nSent' = [nSent EXCEPT ![c] = @ + 1]
    /\ fpc' = [fpc EXCEPT ![c] = "inflight"]
    /\ UNCHANGED <<base_urls, current_api_index, max_retries, attempt, fresult,
                   failedTotal>>

\* status 200 and response.json() returns: return it at once
FetchRecvOk(c, r) ==
    /\ fpc[c] = "inflight"
    /\ AttemptSucceeds(r)
    /\ fresult' = [fresult EXCEPT ![c] = JsonValue(r.body)]
    /\ fpc' = [fpc EXCEPT ![c] = "done"]
    /\ UNCHANGED <<base_urls, current_api_index, max_retries, attempt,
                   current_api, nSent, failedTotal>>

\* a rotation that starts from the cursor the call read when it built its
\* request
cursor_read_stale(c) == current_api[c]

\* the cursor rotate_api starts from: it reads self.current_api_index in the
\* statement that writes it, with no await in between
cursor_read(c) == current_api_index

\* any other status, or an exception from get or from json(): record the
\* error (errors grows by one, so len(errors) = attempt), rotate, next
\* iteration
FetchRecvFail(c, r) ==
    /\ fpc[c] = "inflight"
    /\ ~AttemptSucceeds(r)
    /\ current_api_index' = rotate_api(cursor_read(c), base_urls)
    /\ attempt' = [attempt EXCEPT ![c] = @ + 1]
    /\ failedTotal' = failedTotal + 1
    /\ fpc' = [fpc EXCEPT ![c] = "loop"]
    /\ UNCHANGED <<base_urls, max_retries, current_api, nSent, fresult>>

\* the loop is exhausted: log the errors, return None
FetchExhausted(c) ==
    /\ fpc[c] = "loop"
    /\ attempt[c] >= max_retries[c]
    /\ fresult' = [fresult EXCEPT ![c] = "None"]
    /\ fpc' = [fpc EXCEPT ![c] = "done"]
    /\ UNCHANGED <<base_urls, current_api_index, max_retries, attempt,
                   current_api, nSent, failedTotal>>

NextFetch ==
    \/ \E c \in Calls : FetchCall(c) /\ UNCHANGED fetchFrame
    \/ \E c \in Calls : FetchSend(c) /\ UNCHANGED fetchFrame
    \/ \E c \in Calls, r \in Responses : FetchRecvOk(c, r) /\ UNCHANGED fetchFrame
    \/ \E c \in Calls, r \in Responses : FetchRecvFail(c, r) /\ UNCHANGED fetchFrame
    \/ \E c \in Calls : FetchExhausted(c) /\ UNCHANGED fetchFrame

(***************************************************************************)
(* Part 2: download_asmr's selection session and the download workers.     *)
(***************************************************************************)
Slots == 1..MaxFiles

\* event.get_sender_id() of the user who issued the download command, and
\* the identities a reply can come from
id == "owner"

Senders == {"owner", "other"}

\* A title is a sequence of characters. The listing's n-th track is named
\* t<n>, the second with a '?' and the third with a ':' in its name.
Digits == <<"1", "2", "3", "4", "5", "6", "7", "8", "9">>

Title(i) ==
    IF i = 2 THEN <<"t", Digits[i], "?">>
    ELSE IF i = 3 THEN <<"t", Digits[i], ":">>
    ELSE <<"t", Digits[i]>>

Url(i) == <<"u", Digits[i]>>

\* file_name.replace(":", "：").replace("?", "？"): the full-width characters
\* are written U+FF1A and U+FF1F
Sanitize(name) ==
    [k \in DOMAIN name |->
        IF name[k] = ":" THEN "U+FF1A"
        ELSE IF name[k] = "?" THEN "U+FF1F"
        ELSE name[k]]

\* full_path = base_dir / folder_path / file_name with folder_path = "":
\* inside the work's directory a path is the sanitized title
full_path(file_info) == Sanitize(file_info.title)

Paths == {Sanitize(Title(i)) : i \in Slots}

\* a file on disk: its bytes are tagged "old" (there before the session) or
\* "new" (written by a worker of the session)
NoFile == [exists |-> FALSE, bytes |-> <<>>]

OldFile(n) == [exists |-> TRUE, bytes |-> [k \in 1..n |-> "old"]]

st_size(f) == Len(f.bytes)

\* lines 546-562 without the skip of a complete file
PreCheck_noskip(ex, S, E) ==
    IF ex /\ S < E
    THEN [done |-> FALSE, mode |-> "ab", range |-> <<S>>, unlink |-> FALSE]
    ELSE [done |-> FALSE, mode |-> "wb", range |-> <<>>, unlink |-> ex]

\* lines 546-562 resuming whenever the sizes differ
PreCheck_resumeAny(ex, S, E) ==
    IF ex /\ S = E /\ E > 0
    THEN [done |-> TRUE, mode |-> "wb", range |-> <<>>, unlink |-> FALSE]
    ELSE IF ex /\ S # E
    THEN [done |-> FALSE, mode |-> "ab", range |-> <<S>>, unlink |-> FALSE]
    ELSE [done |-> FALSE, mode |-> "wb", range |-> <<>>, unlink |-> ex]

\* download_worker, lines 546-562: what the worker decides from
\* full_path.exists() (ex), st_size (S) and expected_size (E);
\* done: return True at once; range: the Range header's start, <<>> for none
PreCheck(ex, S, E) ==
    IF ex
    THEN IF S = E /\ E > 0
         THEN [done |-> TRUE, mode |-> "wb", range |-> <<>>, unlink |-> FALSE]
         ELSE IF S < E
         THEN [done |-> FALSE, mode |-> "ab", range |-> <<S>>, unlink |-> FALSE]
         ELSE [done |-> FALSE, mode |-> "wb", range |-> <<>>, unlink |-> TRUE]
    ELSE [done |-> FALSE, mode |-> "wb", range |-> <<>>, unlink |-> FALSE]

\* aiofiles.open(full_path, mode): 'wb' creates or truncates, 'ab' creates
\* or keeps
open(f, m) == IF m = "wb" \/ ~f.exists THEN [exists |-> TRUE, bytes |-> <<>>] ELSE f

\* f.write(chunk): one chunk is one byte of the model
write(f) == [f EXCEPT !.bytes = Append(@, "new")]

\* a semaphore that never blocks
Acquirable_always(value) == TRUE

\* asyncio.Semaphore.acquire returns without waiting iff _value > 0
Acquirable(value) == value > 0

(***************************************************************************)
(* What the file server can answer to one GET.                             *)
(*   "exc"      session.get raises (transport error, closed session)       *)
(*   "status"   a status raise_for_status rejects                          *)
(*   "openfail" status 200/206 but aiofiles.open raises                    *)
(*   "ok"       status 206 with the bytes from the Range's start on when   *)
(*              the server honours the Range header, status 200 with the   *)
(*              whole file when there is none or the server ignores it     *)
(***************************************************************************)
DlResponses ==
    {[kind |-> "exc", status |-> 0, honoured |-> FALSE]} \cup
    {[kind |-> "status", status |-> s, honoured |-> FALSE] : s \in {404, 416, 500}} \cup
    {[kind |-> k, status |-> 0, honoured |-> h] : k \in {"openfail", "ok"}, h \in BOOLEAN}

\* the size of the file the server holds: the size the catalog declares,
\* for a track of undeclared size (0) the largest
Served(file_info) == IF file_info.size > 0 THEN file_info.size ELSE MaxSize

\* a Range that starts at or behind the end of the file is answered 416
Satisfiable(r, range, total) ==
    (r.kind \in {"openfail", "ok"} /\ r.honoured /\ range # <<>>) => range[1] < total

\* chunks in the body of an accepted response
BodyLen(r, range, total) ==
    IF r.honoured /\ range # <<>> THEN total - range[1] ELSE total

(***************************************************************************)
(* Replies. A reply is the list of its comma-separated raw tokens.         *)
(***************************************************************************)
RawTokens == {"I1", "i2", " I3 ", "I4", "ZZ", "", " ", "q", "Q", "*"}

Replies == UNION {[1..n -> RawTokens] : n \in 1..MaxTokens}

\* str.strip().upper() of one token
Norm(tok) ==
    CASE tok = "i2" -> "I2"
      [] tok = " i1" -> "I1"
      [] tok = " I3 " -> "I3"
      [] tok = " " -> ""
      [] tok = "q" -> "Q"
      [] OTHER -> tok

\* the ordinal n of the key "I<n>", 0 for any other text
KeyIndex(key) ==
    CASE key = "I1" -> 1
      [] key = "I2" -> 2
      [] key = "I3" -> 3
      [] key = "I4" -> 4
      [] OTHER -> 0

\* key in selectable_items: the keys are I1..I<len(all_audio_files)>
IsKey(key, listing) == KeyIndex(key) \in 1..Len(listing)

NonEmpty(k) == k # ""

\* chosen_keys = [k.strip() for k in choice.split(',') if k.strip()]
chosen_keys(reply) == SelectSeq([k \in DOMAIN reply |-> Norm(reply[k])], NonEmpty)

\* choice == 'Q' and choice == '*' compare the whole reply
IsWhole(reply, text) == Len(reply) = 1 /\ Norm(reply[1]) = text

\* position of the first key that is no key of the listing, 0 if none
RECURSIVE FirstInvalid(_, _, _)
FirstInvalid(keys, listing, k) ==
    IF k > Len(keys) THEN 0
    ELSE IF ~IsKey(keys[k], listing) THEN k
    ELSE FirstInvalid(keys, listing, k + 1)

\* a key made of the title alone
unique_key_title(f) == f.title

\* the unique key of a descriptor (the concatenation url + title)
unique_key(f) == f.url \o f.title

\* lines 697-703: keep the first descriptor of every unique key, in order;
\* descriptors are named by their position in the listing
RECURSIVE unique_files(_, _, _)
unique_files(sel, listing, acc) ==
    IF sel = <<>> THEN acc
    ELSE IF \E j \in DOMAIN acc :
                unique_key(listing[acc[j]]) = unique_key(listing[Head(sel)])
    THEN unique_files(Tail(sel), listing, acc)
    ELSE unique_files(Tail(sel), listing, Append(acc, Head(sel)))

\* a '*' that takes the first item only
all_items_first(listing) == [k \in 1..1 |-> k]

\* lines 682-683: the files of every selectable item, in the order of the
\* keys I1, I2, ...
all_items(listing) == [k \in 1..Len(listing) |-> k]

\* lines 679-689: final_files before deduplication, for a valid reply
Selected(reply, listing) ==
    IF IsWhole(reply, "*")
    THEN all_items(listing)
    ELSE [k \in DOMAIN chosen_keys(reply) |-> KeyIndex(chosen_keys(reply)[k])]

\* a message of the chat: its kind, the key an "invalid" message names,
\* the count a "selected" message names
Msg(kind, key, count) ==
    [kind |-> kind, key |-> key, count |-> count, success |-> 0, failure |-> 0]

\* _send_download_summary (lines 595-603): len(final_files), success_count
\* and len(final_files) - success_count
Summary(final, success) ==
    [kind |-> "summary", key |-> "", count |-> Len(final), success |-> success,
     failure |-> Len(final) - success]

\* a handler that stops the session only after a summary
StopOnExit_summaryOnly(path) == path = "summary"

\* the finally block of selection_waiter (lines 732-734) runs controller.stop()
\* on every way out of the try block
StopOnExit(path) == TRUE

\* controller.stop(): resolves the future unless it is already done
stop(fut) == IF fut = "pending" THEN "stopped" ELSE fut

\* selection_waiter returns (or its exception was handled) on `path`, after
\* sending `out`
Finish(path, out) ==
    /\ msgs' = msgs \o out
    /\ exitPath' = path
    /\ hpc' = "idle"
    /\ IF StopOnExit(path)
       THEN stopCalled' = stopCalled + 1 /\ future' = stop(future)
       ELSE UNCHANGED <<stopCalled, future>>

\* the session_waiter hands a reply to its handler only while the future
\* is unresolved and no earlier reply is still being handled
Waiting == future = "pending" /\ hpc = "idle" /\ nHandled < MaxReplies

\* the session_waiter hands a reply to selection_waiter: lines 669-709,
\* every path but the launch of a batch
HandleReply(sender, reply) ==
    /\ Waiting
    /\ nHandled' = nHandled + 1
    /\ ev_sender' = sender
    /\ LET keys == chosen_keys(reply)
           bad == FirstInvalid(keys, files, 1)
       IN  \/ /\ sender # id
              /\ Finish("foreign", <<>>)
           \/ /\ sender = id
              /\ IsWhole(reply, "Q")
              /\ Finish("cancel", <<Msg("cancelled", "", 0)>>)
           \/ /\ sender = id
              /\ ~IsWhole(reply, "Q") /\ ~IsWhole(reply, "*")
              /\ bad # 0
              /\ Finish("invalid", <<Msg("invalid", keys[bad], 0)>>)
           \/ /\ sender = id
              /\ ~IsWhole(reply, "Q") /\ ~IsWhole(reply, "*")
              /\ bad = 0
              /\ unique_files(Selected(reply, files), files, <<>>) = <<>>
              /\ Finish("empty", <<Msg("empty", "", 0)>>)
    /\ UNCHANGED <<final_files, sessionClosed, workerVars, configVars>>

\* lines 709-724: a valid selection; the batch is announced, the client
\* session and the semaphore are created and gather starts one task per file
LaunchBatch(sender, reply) ==
    /\ Waiting
    /\ sender = id
    /\ ~IsWhole(reply, "Q")
    /\ IsWhole(reply, "*") \/ FirstInvalid(chosen_keys(reply), files, 1) = 0
    /\ LET batch == unique_files(Selected(reply, files), files, <<>>)
       IN  /\ batch # <<>>
           /\ final_files' = batch
           /\ msgs' = Append(msgs, Msg("selected", "", Len(batch)))
           /\ wpc' = [i \in Slots |-> IF i <= Len(batch) THEN "new" ELSE "none"]
    /\ nHandled' = nHandled + 1
    /\ ev_sender' = sender
    /\ hpc' = "gather"
    /\ sessionClosed' = FALSE
    /\ semaphore' = max_concurrent_downloads
    /\ mode' = [i \in Slots |-> "wb"]
    /\ headers_range' = [i \in Slots |-> <<>>]
    /\ reqRange' = [i \in Slots |-> <<>>]
    /\ acquired' = [i \in Slots |-> FALSE]
    /\ bodyLeft' = [i \in Slots |-> 0]
    /\ UNCHANGED <<future, exitPath, stopCalled, disk, configVars>>

\* the descriptor worker i was given
FileOf(i) == files[final_files[i]]

\* download_worker up to `async with semaphore` (lines 536-562). The tasks
\* of a gather start in submission order. A filesystem call of these lines
\* (mkdir, stat, unlink) may raise: the exception leaves the worker.
WorkerStart(i, fault) ==
    /\ wpc[i] = "new"
    /\ \A j \in 1..(i - 1) : wpc[j] # "new"
    /\ LET p == full_path(FileOf(i))
           d == PreCheck(disk[p].exists, st_size(disk[p]), FileOf(i).size)
       IN  IF fault
           THEN /\ wpc' = [wpc EXCEPT ![i] = "raised"]
                /\ UNCHANGED <<mode, headers_range, disk>>
           ELSE /\ wpc' = [wpc EXCEPT ![i] = IF d.done THEN "true" ELSE "sem"]
                /\ mode' = [mode EXCEPT ![i] = d.mode]
                /\ headers_range' = [headers_range EXCEPT ![i] = d.range]
                /\ disk' = IF d.unlink THEN [disk EXCEPT ![p] = NoFile] ELSE disk
    /\ UNCHANGED <<reqRange, acquired, bodyLeft, semaphore, sessionVars, configVars>>

\* lines 564-573: the semaphore is entered and the GET is issued with the
\* Range header of headers_range
WorkerGet(i) ==
    /\ wpc[i] = "sem"
    /\ Acquirable(semaphore)
    /\ semaphore' = semaphore - 1
    /\ acquired' = [acquired EXCEPT ![i] = TRUE]
    /\ reqRange' = [reqRange EXCEPT ![i] = Append(@, headers_range[i])]
    /\ wpc' = [wpc EXCEPT ![i] = "get"]
    /\ UNCHANGED <<mode, headers_range, bodyLeft, disk, sessionVars, configVars>>

\* lines 573-580: the response arrives; an exception or a rejected status
\* ends the worker with False, else the file is opened in `mode`.
\* A closed client session only raises.
WorkerResponse(i, r) ==
    /\ wpc[i] = "get"
    /\ sessionClosed => r.kind = "exc"
    /\ Satisfiable(r, headers_range[i], Served(FileOf(i)))
    /\ LET p == full_path(FileOf(i))
       IN  IF r.kind = "ok"
           THEN /\ disk' = [disk EXCEPT ![p] = open(@, mode[i])]
                /\ bodyLeft' = [bodyLeft EXCEPT
                                  ![i] = BodyLen(r, headers_range[i], Served(FileOf(i)))]
                /\ wpc' = [wpc EXCEPT ![i] = "body"]
                /\ UNCHANGED semaphore
           ELSE /\ wpc' = [wpc EXCEPT ![i] = "false"]
                /\ semaphore' = semaphore + 1
                /\ UNCHANGED <<disk, bodyLeft>>
    /\ UNCHANGED <<mode, headers_range, reqRange, acquired, sessionVars, configVars>>

\* lines 581-583: one chunk is read and written
WorkerChunk(i) ==
    /\ wpc[i] = "body"
    /\ bodyLeft[i] > 0
    /\ ~sessionClosed
    /\ disk' = [disk EXCEPT ![full_path(FileOf(i))] = write(@)]
    /\ bodyLeft' = [bodyLeft EXCEPT ![i] = @ - 1]
    /\ UNCHANGED <<wpc, mode, headers_range, reqRange, acquired, semaphore,
                   sessionVars, configVars>>

\* lines 585-586: the body ended, return True
WorkerDone(i) ==
    /\ wpc[i] = "body"
    /\ bodyLeft[i] = 0
    /\ wpc' = [wpc EXCEPT ![i] = "true"]
    /\ semaphore' = semaphore + 1
    /\ UNCHANGED <<mode, headers_range, reqRange, acquired, bodyLeft, disk,
                   sessionVars, configVars>>

\* lines 591-593: reading or writing a chunk raises (connection lost, client
\* session closed, disk full), return False
WorkerChunkError(i) ==
    /\ wpc[i] = "body"
    /\ bodyLeft[i] > 0
    /\ wpc' = [wpc EXCEPT ![i] = "false"]
    /\ semaphore' = semaphore + 1
    /\ UNCHANGED <<mode, headers_range, reqRange, acquired, bodyLeft, disk,
                   sessionVars, configVars>>

Batch == 1..Len(final_files)

\* line 724: the list gather returns holds the value of worker i at place i
results == [i \in Batch |-> wpc[i] = "true"]

\* a count that takes every file for a success
success_count_all == Len(final_files)

\* line 725: sum(results)
success_count == Cardinality({i \in DOMAIN results : results[i]})

\* lines 724-727: every task returned a boolean; the summary is sent
GatherReturn ==
    /\ hpc = "gather"
    /\ \A i \in Batch : wpc[i] \in {"true", "false"}
    /\ sessionClosed' = TRUE
    /\ Finish("summary", <<Summary(final_files, success_count)>>)
    /\ UNCHANGED <<nHandled, ev_sender, final_files, workerVars, configVars>>

\* line 724 with a task that raised: gather (return_exceptions is not set)
\* re-raises it in selection_waiter while the other tasks keep running;
\* the client session is left (closed) and lines 729-731 report the error
GatherRaise ==
    /\ hpc = "gather"
    /\ \E i \in Batch : wpc[i] = "raised"
    /\ sessionClosed' = TRUE
    /\ Finish("fatal", <<Msg("fatal", "", 0)>>)
    /\ UNCHANGED <<nHandled, ev_sender, final_files, workerVars, configVars>>

\* the session_waiter's timeout elapses with the future not yet resolved:
\* download_asmr catches TimeoutError and reports it (lines 737-740)
Timeout ==
    /\ future = "pending"
    /\ future' = "timeout"
    /\ msgs' = Append(msgs, Msg("timeout", "", 0))
    /\ UNCHANGED <<hpc, nHandled, ev_sender, exitPath, stopCalled, final_files,
                   sessionClosed, workerVars, configVars>>

SessionIdle ==
    /\ future = "pending"
    /\ hpc = "idle"
    /\ nHandled = 0
    /\ ev_sender = id
    /\ exitPath = "none"
    /\ stopCalled = 0
    /\ msgs = <<>>
    /\ final_files = <<>>
    /\ sessionClosed = FALSE
    /\ wpc = [i \in Slots |-> "none"]
    /\ mode = [i \in Slots |-> "wb"]
    /\ headers_range = [i \in Slots |-> <<>>]
    /\ reqRange = [i \in Slots |-> <<>>]
    /\ acquired = [i \in Slots |-> FALSE]
    /\ bodyLeft = [i \in Slots |-> 0]
    /\ semaphore = 0

Listing(n, sizes) == [i \in 1..n |-> [title |-> Title(i), url |-> Url(i), size |-> sizes[i]]]

\* the fetch specification leaves the download session out
DownloadIdle ==
    /\ files = <<>>
    /\ max_concurrent_downloads = 1
    /\ disk = [p \in Paths |-> NoFile]
    /\ disk0 = disk
    /\ SessionIdle

\* a listing of 1..MaxFiles tracks of one chunk, each either absent from
\* the disk or completely downloaded before
InitBatch ==
    /\ \E n \in 1..MaxFiles : files = Listing(n, [i \in 1..n |-> 1])
    /\ max_concurrent_downloads \in 1..MaxConcurrent
    /\ disk \in [Paths -> {NoFile, OldFile(1)}]
    /\ \A i \in Slots : i > Len(files) => disk[Sanitize(Title(i))] = NoFile
    /\ disk0 = disk
    /\ SessionIdle

\* a listing of one track of any declared size, the target absent or
\* present with any size up to one more than the largest
InitResume ==
    /\ \E e \in 0..MaxSize : files = Listing(1, <<e>>)
    /\ max_concurrent_downloads \in 1..MaxConcurrent
    /\ \E f \in {NoFile} \cup {OldFile(n) : n \in 0..(MaxSize + 1)} :
          disk = [p \in Paths |-> IF p = Sanitize(Title(1)) THEN f ELSE NoFile]
    /\ disk0 = disk
    /\ SessionIdle

NextDownload ==
    \/ Waiting /\ \E s \in Senders, r \in Replies : HandleReply(s, r) /\ UNCHANGED downloadFrame
    \/ Waiting /\ \E s \in Senders, r \in Replies : LaunchBatch(s, r) /\ UNCHANGED downloadFrame
    \/ \E i \in Slots, fault \in BOOLEAN : WorkerStart(i, fault) /\ UNCHANGED downloadFrame
    \/ \E i \in Slots : WorkerGet(i) /\ UNCHANGED downloadFrame
    \/ \E i \in Slots, r \in DlResponses : WorkerResponse(i, r) /\ UNCHANGED downloadFrame
    \/ \E i \in Slots : WorkerChunk(i) /\ UNCHANGED downloadFrame
    \/ \E i \in Slots : WorkerDone(i) /\ UNCHANGED downloadFrame
    \/ \E i \in Slots : WorkerChunkError(i) /\ UNCHANGED downloadFrame
    \/ GatherReturn /\ UNCHANGED downloadFrame
    \/ GatherRaise /\ UNCHANGED downloadFrame
    \/ Timeout /\ UNCHANGED downloadFrame

(***************************************************************************)
(* Part 3: the listing. recursively_transform_data flattens the track tree *)
(* of a work into all_audio_files.                                         *)
(*                                                                         *)
(* A JSON value of the tree is a record: json is "object" for a dict and   *)
(* "string" for a string; children is the value under the key "children":  *)
(* absent, null or a list of items.                                        *)
(***************************************************************************)
Absent == [kind |-> "absent", items |-> <<>>]

Null == [kind |-> "null", items |-> <<>>]

List(items) == [kind |-> "list", items |-> items]

\* an audio track of the catalog, with its own name and download url
Audio(k) ==
    [json |-> "object", type |-> "audio", title |-> Title(k),
     mediaDownloadUrl |-> Url(k), size |-> 1, children |-> Absent]

\* a leaf that is no audio track
Other(type) ==
    [json |-> "object", type |-> type, title |-> <<"x">>,
     mediaDownloadUrl |-> <<"u", "x">>, size |-> 1, children |-> Absent]

Folder(children) ==
    [json |-> "object", type |-> "folder", title |-> <<"d">>,
     mediaDownloadUrl |-> <<>>, size |-> 0, children |-> children]

Leaves == {Audio(1), Audio(2)} \cup {Other(t) : t \in {"image", "text", "other"}}

\* the nodes with exactly k nodes in their subtree, given the table
\* forests, whose entry m + 1 is the set of item lists with m nodes in all
NodesOfSize(k, forests) ==
    IF k = 1
    THEN Leaves \cup {Folder(Absent), Folder(Null), Folder(List(<<>>))}
    ELSE {Folder(List(f)) : f \in forests[k]}

\* the table of the item lists with 0, 1, ..., n nodes in all
RECURSIVE ForestsOfSize(_)
ForestsOfSize(n) ==
    IF n = 0 THEN <<{<<>>}>>
    ELSE LET forests == ForestsOfSize(n - 1)
         IN  Append(forests,
                    UNION {{<<x>> \o f : x \in NodesOfSize(k, forests),
                                         f \in forests[n - k + 1]} : k \in 1..n})

\* tree is a track tree of up to n nodes (n > 0): empty, or an item
\* followed by a list of items
IsTree(tree, n) ==
    LET forests == ForestsOfSize(n - 1)
    IN  \/ tree = <<>>
        \/ \E m \in 1..n : \E k \in 1..m :
              \E x \in NodesOfSize(k, forests), f \in forests[m - k + 1] :
                  tree = <<x>> \o f

\* a collector that takes every leaf
IsCollected_anyLeaf(item_type) == item_type # "folder"

\* line 58: elif item_type == "audio"
IsCollected(item_type) == item_type = "audio"

\* a collector that puts the newest descriptor first
append_front(all_files, file_info) == <<file_info>> \o all_files

\* line 66: all_files.append(file_info)
append(all_files, file_info) == Append(all_files, file_info)

\* lines 59-65: the descriptor of an audio item; full_folder_path is the
\* empty string whatever current_folder_path is
file_info(item, current_folder_path) ==
    [title |-> item.title, url |-> item.mediaDownloadUrl, type |-> item.type,
     size |-> item.size, full_folder_path |-> <<>>]

\* lines 45-67. The accumulator is all_files together with a flag: raised
\* is set when a statement raises (item.get on a value that is no dict),
\* and the rest of the traversal is then abandoned.
RECURSIVE recursively_transform_data(_, _, _)
recursively_transform_data(items, acc, current_folder_path) ==
    IF acc.raised \/ items = <<>> THEN acc
    ELSE LET item == Head(items)
             new_path == Append(current_folder_path, item.title)
             after ==
                 IF item.json # "object"
                 THEN [acc EXCEPT !.raised = TRUE]
                 ELSE IF item.type = "folder"
                 THEN IF item.children.kind = "list"
                      THEN recursively_transform_data(item.children.items, acc, new_path)
                      ELSE acc
                 ELSE IF IsCollected(item.type)
                 THEN [acc EXCEPT !.all_files =
                          append(@, file_info(item, current_folder_path))]
                 ELSE acc
         IN  recursively_transform_data(Tail(items), after, current_folder_path)

\* lines 636-638: all_audio_files = [] and the call on the fetched tree
Flattened(tree) ==
    recursively_transform_data(tree, [raised |-> FALSE, all_files |-> <<>>], <<>>)

\* the download command lists the work: lines 636-658, the listing becomes
\* all_audio_files and its n-th entry the selectable item I<n>
Flatten ==
    /\ Len(listings) < MaxListings
    /\ ~Flattened(data).raised
    /\ files' = Flattened(data).all_files
    /\ listings' = Append(listings, files')
    /\ UNCHANGED <<data, choice, resolved, max_concurrent_downloads, disk0,
                   sessionVars, workerVars, fetchVars, commandVars, trackVars>>

NextFlatten == Flatten

(***************************************************************************)
(* The resolution of a reply into the batch (selection_waiter, lines       *)
(* 673-707), as a function of the reply and the listing.                   *)
(***************************************************************************)
\* how a reply of the originating user is resolved: the branch taken ('Q',
\* '*' or the list of keys), the outcome, and final_files after
\* deduplication (descriptors named by their position in the listing)
Resolution(reply, listing) ==
    LET keys == chosen_keys(reply)
        batch == unique_files(Selected(reply, listing), listing, <<>>)
    IN  IF IsWhole(reply, "Q")
        THEN [branch |-> "Q", outcome |-> "cancel", final_files |-> <<>>]
        ELSE IF ~IsWhole(reply, "*") /\ FirstInvalid(keys, listing, 1) # 0
        THEN [branch |-> "keys", outcome |-> "invalid", final_files |-> <<>>]
        ELSE [branch |-> IF IsWhole(reply, "*") THEN "*" ELSE "keys",
              outcome |-> IF batch = <<>> THEN "empty" ELSE "batch",
              final_files |-> batch]

\* the raw tokens of the replies whose resolutions are compared
SelectTokens == {"I1", " i1", "I2", "i2", "I3", "ZZ", ""}

SelectReplies == {<<"*">>} \cup UNION {[1..n -> SelectTokens] : n \in 1..MaxTokens}

\* the replies that spell the tokens of `reply`, in its order, in some letter
\* case and with some surrounding whitespace
RECURSIVE Spellings(_)
Spellings(reply) ==
    IF reply = <<>> THEN {<<>>}
    ELSE {<<t>> \o rest : t \in {u \in SelectTokens : Norm(u) = Norm(Head(reply))},
                          rest \in Spellings(Tail(reply))}

\* the replies that name the tokens of `reply` in some order, each in some
\* letter case and with some surrounding whitespace
Reordered(reply) ==
    UNION {Spellings([k \in DOMAIN reply |-> reply[pi[k]]]) :
              pi \in Permutations(DOMAIN reply)}

KeyNames == <<"I1", "I2", "I3", "I4">>

\* the reply that names every token of the listing explicitly
EveryKey(listing) == [k \in 1..Len(listing) |-> KeyNames[k]]

\* the reply names every token of the listing
NamesEveryKey(reply, listing) ==
    /\ Len(listing) <= MaxTokens
    /\ reply \in Reordered(EveryKey(listing))

\* the replies a resolution of `reply` is compared with
Related(reply, listing) ==
    IF IsWhole(reply, "*")
    THEN {reply} \cup
         (IF Len(listing) <= MaxTokens THEN Reordered(EveryKey(listing)) ELSE {})
    ELSE Reordered(reply) \cup
         (IF NamesEveryKey(reply, listing) THEN {<<"*">>} ELSE {})

\* selection_waiter resolves a reply: first `choice`, then a reply related
\* to it, the pair that is compared
Resolve(reply) ==
    /\ resolved = <<>> \/ Len(resolved) = 1
    /\ resolved = <<>> => reply = choice
    /\ resolved' = Append(resolved, Resolution(reply, files))
    /\ UNCHANGED <<data, listings, choice, downloadVars, fetchVars, commandVars,
                   trackVars>>

NextSelect == \E reply \in Related(choice, files) : Resolve(reply)

ListingIdle ==
    /\ data = <<>>
    /\ listings = <<>>
    /\ choice = <<>>
    /\ resolved = <<>>

(***************************************************************************)
(* Part 4: the command handlers search_asmr, play_asmr, play_Random_asmr   *)
(* and download_asmr, from the command to the start of the reply session.  *)
(* fetch_with_retry is taken by its return value: None, or the parsed      *)
(* JSON of a 200 response, of any shape.                                   *)
(***************************************************************************)
IsDigit(ch) == ch \in {"0", "1", "2", "3", "4", "5", "6", "7", "8", "9"}

\* the longest run of digits of text that starts at position p: \d+ is greedy
RECURSIVE DigitsFrom(_, _)
DigitsFrom(text, p) ==
    IF p <= Len(text) /\ IsDigit(text[p])
    THEN <<text[p]>> \o DigitsFrom(text, p + 1)
    ELSE <<>>

\* (?:RJ)?(?P<id>\d+) with IGNORECASE, tried at position p: the position
\* where group id starts, 0 if there is no match at p
MatchAt(text, p) ==
    IF /\ p + 2 <= Len(text)
       /\ text[p] \in {"R", "r"} /\ text[p + 1] \in {"J", "j"}
       /\ IsDigit(text[p + 2])
    THEN p + 2
    ELSE IF IsDigit(text[p]) THEN p ELSE 0

\* RJ_RE.search(text): the leftmost match; matched is FALSE for None, id is
\* group "id"
RJ_RE(text) ==
    LET starts == {p \in 1..Len(text) : MatchAt(text, p) # 0}
    IN  IF starts = {}
        THEN [matched |-> FALSE, id |-> <<>>]
        ELSE LET p == CHOOSE x \in starts : \A y \in starts : x <= y
             IN  [matched |-> TRUE, id |-> DigitsFrom(text, MatchAt(text, p))]

\* identifiers a user types after the play and download commands
Typed ==
    {<<"R", "J", "0", "1", "2", "3", "4", "5", "6">>,
     <<"r", "j", "1", "2", "3", "4", "5", "6">>,
     <<"0", "1", "2", "3", "4", "5", "6">>,
     <<"R", "J">>}

\* what fetch_with_retry returns for /api/workInfo/<id>: None, or a document
\* with or without the fields title and nsfw; the field nsfw tells what the
\* catalog holds
WorkInfoResults(w) ==
    {[kind |-> "None", has_title |-> FALSE, has_nsfw |-> FALSE, nsfw |-> FALSE]} \cup
    {[kind |-> "doc", has_title |-> t, has_nsfw |-> n, nsfw |-> n /\ w.nsfw] :
        t \in BOOLEAN, n \in BOOLEAN}

\* a JSON string where an item is expected: what iterating a JSON object
\* (its keys) yields
StrItem ==
    [json |-> "string", type |-> "", title |-> <<>>, mediaDownloadUrl |-> <<>>,
     size |-> 0, children |-> Absent]

\* what fetch_with_retry returns for /api/tracks/<id>: None, a list of
\* items, or another JSON value (an object, e.g. an error document: items
\* are then what iterating it yields)
TrackResults ==
    {[kind |-> "None", items |-> <<>>], [kind |-> "object", items |-> <<StrItem>>]} \cup
    {[kind |-> "list", items |-> f] :
        f \in {<<>>, <<Audio(1)>>, <<Other("image")>>, <<Folder(Null)>>,
               <<Folder(List(<<Audio(1), Audio(2)>>))>>}}

\* what fetch_with_retry returns for the search and for the random draw:
\* None, a document without the expected keys, or a page of `works` works
\* out of totalCount
PageResults ==
    {[kind |-> "None", works |-> 0, totalCount |-> 0, currentPage |-> 1],
     [kind |-> "malformed", works |-> 0, totalCount |-> 0, currentPage |-> 1],
     [kind |-> "doc", works |-> 0, totalCount |-> 0, currentPage |-> 1],
     [kind |-> "doc", works |-> 0, totalCount |-> 1, currentPage |-> 2],
     [kind |-> "doc", works |-> 1, totalCount |-> 1, currentPage |-> 1]}

\* get_asmr, lines 402-415: process_item over the tracks result. An item
\* of the result that is no dict makes item["type"] raise; below a folder
\* only dict children are visited.
RECURSIVE process_item(_, _, _)
process_item(items, acc, top) ==
    IF acc.raised \/ items = <<>> THEN acc
    ELSE LET item == Head(items)
             after ==
                 IF item.json # "object"
                 THEN IF top THEN [acc EXCEPT !.raised = TRUE] ELSE acc
                 ELSE IF item.type = "audio"
                 THEN [acc EXCEPT !.keywords = Append(@, item.title)]
                 ELSE IF item.type = "folder" /\ item.children.kind = "list"
                 THEN process_item(item.children.items, acc, FALSE)
                 ELSE acc
         IN  process_item(Tail(items), after, top)

\* the path given to fetch_with_retry, with the command's identifier
Request(api, rid) == [args |-> args, api |-> api, id |-> rid]

\* the running handler says `message` and returns
End(message, outcome) ==
    /\ sent' = Append(sent, message)
    /\ runs' = Append(runs, [command |-> command, outcome |-> outcome,
                             message |-> message])
    /\ cpc' = "idle"

\* a command arrives: the handler runs up to its first fetch_with_retry
\* (search 193-217, play 268-285, random 332-335, download 609-626)
StartCommand(cmd, a, sel, w) ==
    /\ cpc = "idle"
    /\ Len(runs) < MaxCommands
    /\ command' = cmd
    /\ args' = a
    /\ selected_index' = sel
    /\ work' = w
    /\ propagated' = FALSE
    /\ CASE cmd = "search" ->
              /\ sent' = <<"searching">>
              /\ requests' = Append(requests, [args |-> a, api |-> "search", id |-> <<>>])
              /\ cpc' = "search"
              /\ UNCHANGED runs
         [] cmd = "random" ->
              /\ sent' = <<"drawing">>
              /\ requests' = Append(requests, [args |-> a, api |-> "works", id |-> <<>>])
              /\ cpc' = "works"
              /\ UNCHANGED runs
         [] cmd = "play" ->
              IF RJ_RE(a).matched
              THEN /\ sent' = <<"querying">>
                   /\ requests' = Append(requests,
                          [args |-> a, api |-> "workInfo", id |-> RJ_RE(a).id])
                   /\ cpc' = "workInfo"
                   /\ UNCHANGED runs
              ELSE /\ sent' = <<"bad_rj">>
                   /\ runs' = Append(runs, [command |-> cmd, outcome |-> "usage",
                                            message |-> "bad_rj"])
                   /\ UNCHANGED <<requests, cpc>>
         [] cmd = "download" ->
              IF RJ_RE(a).matched
              THEN /\ sent' = <<"querying_list">>
                   /\ requests' = Append(requests,
                          [args |-> a, api |-> "tracks_v2", id |-> RJ_RE(a).id])
                   /\ cpc' = "list"
                   /\ UNCHANGED runs
              ELSE /\ sent' = <<"bad_id">>
                   /\ runs' = Append(runs, [command |-> cmd, outcome |-> "usage",
                                            message |-> "bad_id"])
                   /\ UNCHANGED <<requests, cpc>>
    /\ UNCHANGED nsfw

\* search_asmr, lines 228-262
SearchResult(r) ==
    /\ cpc = "search"
    /\ CASE r.kind = "None" -> End("search_failed", "failed")
         [] r.kind = "malformed" -> End("search_failed", "error")
         [] r.kind = "doc" /\ r.works = 0 /\ r.totalCount = 0 ->
              End("search_empty", "notfound")
         [] r.kind = "doc" /\ r.works = 0 /\ r.totalCount # 0 ->
              End("search_max_pages", "notfound")
         [] OTHER -> End("search_results", "delivered")
    /\ UNCHANGED <<nsfw, command, args, selected_index, work, propagated, requests>>

\* play_asmr, lines 285-294 up to the tracks request of get_asmr
PlayWorkInfo(r) ==
    /\ cpc = "workInfo"
    /\ IF r.kind = "None"
       THEN End("no_info", "failed") /\ UNCHANGED requests
       ELSE IF ~r.has_title
       THEN End("no_info", "notfound") /\ UNCHANGED requests
       ELSE IF ~nsfw /\ ~r.has_nsfw
       THEN End("play_failed", "error") /\ UNCHANGED requests
       ELSE IF ~nsfw /\ r.nsfw
       THEN End("denied_r18", "denied") /\ UNCHANGED requests
       ELSE /\ requests' = Append(requests, Request("tracks", RJ_RE(args).id))
            /\ cpc' = "tracks"
            /\ UNCHANGED <<sent, runs>>
    /\ UNCHANGED <<nsfw, command, args, selected_index, work, propagated>>

\* play_Random_asmr, lines 335-345: the draw
RandomWorks(r) ==
    /\ cpc = "works"
    /\ IF r.kind = "None"
       THEN End("random_failed", "failed") /\ UNCHANGED requests
       ELSE IF r.kind = "malformed"
       THEN End("random_failed", "error") /\ UNCHANGED requests
       ELSE IF r.works = 0
       THEN End("random_failed", "notfound") /\ UNCHANGED requests
       ELSE IF ~nsfw
       THEN End("denied_random", "denied") /\ UNCHANGED requests
       ELSE /\ requests' = Append(requests, Request("workInfo", <<"id">>))
            /\ cpc' = "randomInfo"
            /\ UNCHANGED <<sent, runs>>
    /\ UNCHANGED <<nsfw, command, args, selected_index, work, propagated>>

\* play_Random_asmr, lines 345-357 up to the tracks request of get_asmr
RandomWorkInfo(r) ==
    /\ cpc = "randomInfo"
    /\ IF r.kind = "None"
       THEN End("random_info_failed", "failed") /\ UNCHANGED requests
       ELSE IF ~r.has_title
       THEN End("random_failed", "error") /\ UNCHANGED requests
       ELSE /\ sent' = Append(sent, "drawn")
            /\ requests' = Append(requests, Request("tracks", <<"id">>))
            /\ cpc' = "tracks"
            /\ UNCHANGED runs
    /\ UNCHANGED <<nsfw, command, args, selected_index, work, propagated>>

\* get_asmr from its fetch on (lines 396-454) and the handler's lines after
\* it: the exception of a malformed result is caught by the handler
GetAsmr(result) ==
    /\ cpc = "tracks"
    /\ LET got == process_item(result.items, [raised |-> FALSE, keywords |-> <<>>], TRUE)
       IN  IF result.kind = "None"
           THEN End("tracks_failed", "failed")
           ELSE IF got.raised
           THEN End(IF command = "play" THEN "play_failed" ELSE "random_failed", "error")
           ELSE IF got.keywords = <<>>
           THEN End("no_tracks", "notfound")
           ELSE IF selected_index # "None"
           THEN End("playback", "delivered")
           ELSE End("track_list", "delivered")
    /\ UNCHANGED <<nsfw, command, args, selected_index, work, propagated, requests>>

\* download_asmr, lines 632-662: the listing is built outside any try block
DownloadTracks(result) ==
    /\ cpc = "list"
    /\ IF result.kind = "None"
       THEN End("list_failed", "failed") /\ UNCHANGED propagated
       ELSE IF Flattened(result.items).raised
       THEN /\ propagated' = TRUE
            /\ runs' = Append(runs, [command |-> command, outcome |-> "error",
                                     message |-> "none"])
            /\ cpc' = "idle"
            /\ UNCHANGED sent
       ELSE IF Flattened(result.items).all_files = <<>>
       THEN End("no_audio", "notfound") /\ UNCHANGED propagated
       ELSE End("listing", "delivered") /\ UNCHANGED propagated
    /\ UNCHANGED <<nsfw, command, args, selected_index, work, requests>>

commandFrame == <<fetchVars, downloadVars, listingVars, trackVars>>

NextCommand ==
    \/ \E cmd \in {"search", "random"}, w \in [nsfw : BOOLEAN] :
          StartCommand(cmd, <<>>, "None", w) /\ UNCHANGED commandFrame
    \/ \E a \in Typed, sel \in {"None", "valid"}, w \in [nsfw : BOOLEAN] :
          StartCommand("play", a, sel, w) /\ UNCHANGED commandFrame
    \/ \E a \in Typed, w \in [nsfw : BOOLEAN] :
          StartCommand("download", a, "None", w) /\ UNCHANGED commandFrame
    \/ \E r \in PageResults : SearchResult(r) /\ UNCHANGED commandFrame
    \/ \E r \in WorkInfoResults(work) : PlayWorkInfo(r) /\ UNCHANGED commandFrame
    \/ \E r \in PageResults : RandomWorks(r) /\ UNCHANGED commandFrame
    \/ \E r \in WorkInfoResults(work) : RandomWorkInfo(r) /\ UNCHANGED commandFrame
    \/ \E result \in TrackResults : GetAsmr(result) /\ UNCHANGED commandFrame
    \/ \E result \in TrackResults : DownloadTracks(result) /\ UNCHANGED commandFrame

\* no command has been given
NoCommand ==
    /\ command = "none"
    /\ args = <<>>
    /\ selected_index = "None"
    /\ work = [nsfw |-> FALSE]
    /\ cpc = "idle"
    /\ sent = <<>>
    /\ propagated = FALSE
    /\ requests = <<>>
    /\ runs = <<>>
    /\ keywords = <<>>
    /\ message_str = <<>>
    /\ played = <<>>

CommandIdle == nsfw = TRUE /\ NoCommand

\* fetch_with_retry is not running during a download session
FetchUnused ==
    /\ base_urls = MaxMirrors
    /\ max_retries = [c \in Calls |-> MaxRetries]
    /\ FetchIdle

InitFetch == FetchConfig /\ FetchIdle /\ DownloadIdle /\ ListingIdle /\ CommandIdle

SpecFetch == InitFetch /\ [][NextFetch]_vars

\* the download session with a batch of several files
InitDownload == InitBatch /\ FetchUnused /\ ListingIdle /\ CommandIdle

SpecDownload == InitDownload /\ [][NextDownload]_vars

\* the download session with one file, over every size of target and
\* declaration
InitResumeSession == InitResume /\ FetchUnused /\ ListingIdle /\ CommandIdle

SpecResume == InitResumeSession /\ [][NextDownload]_vars

\* the tracks request of the download command returned a tree
InitFlatten ==
    /\ IsTree(data, MaxNodes)
    /\ listings = <<>>
    /\ choice = <<>>
    /\ resolved = <<>>
    /\ DownloadIdle
    /\ FetchUnused
    /\ CommandIdle

SpecFlatten == InitFlatten /\ [][NextFlatten]_vars

\* the descriptors of a listing: a track, a track of the same name with
\* another url (the same file name in another folder), and a third track;
\* a listing may hold a descriptor more than once
Descriptors ==
    {[title |-> Title(1), url |-> Url(1), size |-> 1],
     [title |-> Title(1), url |-> Url(2), size |-> 1],
     [title |-> Title(2), url |-> Url(3), size |-> 1]}

\* a listing was sent and the originating user replies
InitSelect ==
    /\ files \in UNION {[1..n -> Descriptors] : n \in 1..MaxFiles}
    /\ choice \in SelectReplies
    /\ resolved = <<>>
    /\ data = <<>>
    /\ listings = <<>>
    /\ max_concurrent_downloads = 1
    /\ disk = [p \in Paths |-> NoFile]
    /\ disk0 = disk
    /\ SessionIdle
    /\ FetchUnused
    /\ CommandIdle

SpecSelect == InitSelect /\ [][NextSelect]_vars

\* the plugin is loaded with either setting of enable_nsfw
InitCommand ==
    /\ nsfw \in BOOLEAN
    /\ NoCommand
    /\ DownloadIdle
    /\ ListingIdle
    /\ FetchUnused

SpecCommand == InitCommand /\ [][NextCommand]_vars

\* a listing whose tracks come from several folders of the work: every track
\* has its own download url, and tracks of different folders may carry the
\* same file name (flattening drops the folder path); nothing is on the disk
InitSameTitle ==
    /\ \E n \in 2..MaxFiles : \E t \in [1..n -> 1..n] :
          files = [i \in 1..n |-> [title |-> Title(t[i]), url |-> Url(i), size |-> 1]]
    /\ max_concurrent_downloads \in 1..MaxConcurrent
    /\ disk = [p \in Paths |-> NoFile]
    /\ disk0 = disk
    /\ SessionIdle

InitFolders == InitSameTitle /\ FetchUnused /\ ListingIdle /\ CommandIdle

\* the download session for a work with several folders
SpecFolders == InitFolders /\ [][NextDownload]_vars

\* the download command from its tracks request (call 1) on, and the
\* request of one other command (call 2); any further call has returned
\* before. The tree is that of a work with one track in a folder.
InitDownloadCommand ==
    /\ base_urls \in {2, MaxMirrors}
    /\ max_retries = [c \in Calls |-> MaxRetries]
    /\ current_api_index = 0
    /\ fpc = [c \in Calls |-> IF c <= 2 THEN "idle" ELSE "done"]
    /\ attempt = [c \in Calls |-> 0]
    /\ current_api = [c \in Calls |-> 0]
    /\ nSent = [c \in Calls |-> IF c <= 2 THEN 0 ELSE 1]
    /\ fresult = [c \in Calls |-> IF c <= 2 THEN "pending" ELSE "parsed"]
    /\ failedTotal = 0
    /\ data = <<Folder(List(<<Audio(1)>>)), Other("image")>>
    /\ listings = <<>>
    /\ choice = <<>>
    /\ resolved = <<>>
    /\ DownloadIdle
    /\ CommandIdle

\* line 632: the tracks request of the download command (call 1) returned
\* a document
TracksFetched == fpc[1] = "done" /\ fresult[1] = "parsed"

\* download_asmr from line 632 on: the tracks are fetched, flattened once,
\* then the session runs; the other command's request is made while the
\* batch is downloading
NextDownloadCommand ==
    \/ NextFetch /\ (final_files = <<>> => fpc'[2] = "idle")
    \/ TracksFetched /\ listings = <<>> /\ Flatten
    \/ files # <<>> /\ NextDownload

SpecDownloadCommand == InitDownloadCommand /\ [][NextDownloadCommand]_vars

(***************************************************************************)
(* The track-choice session of play_asmr (lines 301-324) and of            *)
(* play_Random_asmr (lines 362-385): the same track_waiter in both. The    *)
(* session uses the controller variables of the download session (future,  *)
(* nHandled, ev_sender, exitPath, stopCalled) and the command's cpc        *)
(* ("session": waiting for a reply, "playing": inside _play_track) and     *)
(* sent. A message is a sequence of characters.                            *)
(***************************************************************************)
\* characters str.isdigit() accepts and int() rejects: the digits that are
\* no decimal digits, such as the superscript two (written U+00B2)
IsOtherDigit(ch) == ch \in {"U+00B2"}

RECURSIVE lstrip(_)
lstrip(text) ==
    IF text # <<>> /\ Head(text) = " " THEN lstrip(Tail(text)) ELSE text

Reverse(text) == [k \in 1..Len(text) |-> text[Len(text) + 1 - k]]

\* str.strip()
strip(text) == Reverse(lstrip(Reverse(lstrip(text))))

\* str.isdigit(): the text is not empty and all its characters are digits
isdigit(text) ==
    /\ text # <<>>
    /\ \A k \in DOMAIN text : IsDigit(text[k]) \/ IsOtherDigit(text[k])

DigitValue(ch) ==
    CHOOSE v \in 0..9 : <<"0", "1", "2", "3", "4", "5", "6", "7", "8", "9">>[v + 1] = ch

RECURSIVE Decimal(_)
Decimal(text) ==
    IF text = <<>> THEN 0
    ELSE 10 * Decimal(SubSeq(text, 1, Len(text) - 1)) + DigitValue(text[Len(text)])

\* int(text) for a text isdigit() accepted: the value of its decimal digits,
\* ValueError on any other digit
int(text) ==
    IF \A k \in DOMAIN text : IsDigit(text[k])
    THEN [raises |-> FALSE, value |-> Decimal(text)]
    ELSE [raises |-> TRUE, value |-> 0]

\* messages a user sends while the track list is open
TrackReplies ==
    {<<"1">>, <<" ", "2", " ">>, <<"3">>, <<"0">>, <<"9">>, <<"1", "0">>,
     <<"a">>, <<"-", "1">>, <<"1", ".", "5">>, <<>>, <<"U+00B2">>}

\* the message of the handler's `except Exception` (lines 325-327, 386-388)
Failed == IF command = "play" THEN "play_failed" ELSE "random_failed"

trackFrame == <<fetchVars, listingVars, configVars, workerVars, hpc, msgs,
                final_files, sessionClosed, nsfw, command, args, selected_index,
                work, propagated, requests, runs, keywords>>

\* the session_waiter hands a reply to track_waiter (lines 304-319) while
\* the future is unresolved and no earlier reply is being handled. An
\* exception that leaves track_waiter resolves the future with it:
\* `await track_waiter(event)` raises it and the handler's `except Exception`
\* reports the failure.
TrackReply(sender, msg) ==
    /\ cpc = "session"
    /\ future = "pending"
    /\ nHandled < MaxReplies
    /\ nHandled' = nHandled + 1
    /\ ev_sender' = sender
    /\ message_str' = msg
    /\ LET text == strip(msg)
       IN  IF sender # id
           THEN /\ exitPath' = "foreign"
                /\ UNCHANGED <<future, cpc, sent, played>>
           ELSE IF ~isdigit(text)
           THEN /\ exitPath' = "not_number"
                /\ sent' = Append(sent, "not_number")
                /\ UNCHANGED <<future, cpc, played>>
           ELSE IF int(text).raises
           THEN /\ exitPath' = "raised"
                /\ future' = "error"
                /\ sent' = Append(sent, Failed)
                /\ cpc' = "idle"
                /\ UNCHANGED played
           ELSE IF int(text).value - 1 < 0 \/ int(text).value - 1 >= Len(keywords)
           THEN /\ exitPath' = "out_of_range"
                /\ sent' = Append(sent, "out_of_range")
                /\ UNCHANGED <<future, cpc, played>>
           ELSE /\ exitPath' = "play"
                /\ cpc' = "playing"
                /\ played' = Append(played, int(text).value - 1)
                /\ UNCHANGED <<future, sent>>
    /\ UNCHANGED stopCalled

\* _play_track returns (lines 456-527) and line 319 stops the session, or
\* _play_track raises (the POST of line 488, a reply without JSON)
PlayTrack(ok) ==
    /\ cpc = "playing"
    /\ cpc' = "idle"
    /\ IF ok
       THEN /\ exitPath' = "played"
            /\ sent' = Append(sent, "track")
            /\ stopCalled' = stopCalled + 1
            /\ future' = stop(future)
       ELSE /\ exitPath' = "play_raised"
            /\ future' = IF future = "pending" THEN "error" ELSE future
            /\ sent' = IF future = "pending" THEN Append(sent, Failed) ELSE sent
            /\ UNCHANGED stopCalled
    /\ UNCHANGED <<nHandled, ev_sender, message_str, played>>

\* the session_waiter's timeout elapses with the future not yet resolved:
\* the handler catches TimeoutError and reports it (lines 323-324, 384-385)
TrackTimeout ==
    /\ cpc \in {"session", "playing"}
    /\ future = "pending"
    /\ future' = "timeout"
    /\ sent' = Append(sent, "timeout")
    /\ cpc' = IF cpc = "session" THEN "idle" ELSE cpc
    /\ UNCHANGED <<nHandled, ev_sender, message_str, played, exitPath, stopCalled>>

NextTrack ==
    \/ \E s \in Senders, msg \in TrackReplies : TrackReply(s, msg) /\ UNCHANGED trackFrame
    \/ \E ok \in BOOLEAN : PlayTrack(ok) /\ UNCHANGED trackFrame
    \/ TrackTimeout /\ UNCHANGED trackFrame

\* get_asmr returned the list of 1..MaxFiles tracks and the handler sent it
\* (lines 298-299, 359-360)
InitTrack ==
    /\ command \in {"play", "random"}
    /\ \E n \in 1..MaxFiles : keywords = [i \in 1..n |-> Title(i)]
    /\ cpc = "session"
    /\ sent = <<"track_list">>
    /\ message_str = <<>>
    /\ played = <<>>
    /\ nsfw = TRUE
    /\ args = <<>>
    /\ selected_index = "None"
    /\ work = [nsfw |-> FALSE]
    /\ propagated = FALSE
    /\ requests = <<>>
    /\ runs = <<>>
    /\ DownloadIdle
    /\ ListingIdle
    /\ FetchUnused

SpecTrack == InitTrack /\ [][NextTrack]_vars

(***************************************************************************)
(* Claims.                                                                 *)
(***************************************************************************)

\* C1: fetch_with_retry with max_retries = N issues at most N requests, one
\* after another, returns at the first successful attempt without a further
\* request, and returns None if and only if all N attempts failed.
C1_FetchContract ==
    \A c \in Calls :
        /\ nSent[c] <= max_retries[c]
        /\ nSent[c] \in {attempt[c], attempt[c] + 1}
        /\ fpc[c] = "inflight" => nSent[c] = attempt[c] + 1
        /\ fpc[c] = "done" =>
              /\ fresult[c] # "pending"
              /\ fresult[c] = "None" <=> attempt[c] = max_retries[c]
              /\ fresult[c] # "None" => nSent[c] = attempt[c] + 1

\* C2: the rotation index equals (number of failed attempts so far) mod M,
\* it stays inside 0..M-1, and get_current_api names a mirror of the list,
\* as does the mirror of every request in flight.
C2_RotationIndex ==
    /\ current_api_index = failedTotal % base_urls
    /\ current_api_index \in 0..(base_urls - 1)
    /\ get_current_api(current_api_index, base_urls) \in 0..(base_urls - 1)
    /\ \A c \in Calls : fpc[c] = "inflight" => current_api[c] \in 0..(base_urls - 1)

\* C2 witness: more failures than mirrors, the index has wrapped around
C2_Witness ==
    /\ base_urls = 3
    /\ failedTotal = 4
    /\ current_api_index = 1

SummarySent(total, success, failure) ==
    \E k \in DOMAIN msgs :
        /\ msgs[k].kind = "summary"
        /\ msgs[k].count = total
        /\ msgs[k].success = success
        /\ msgs[k].failure = failure

\* C3: once selection_waiter has left a launched batch, every file of the
\* batch has one boolean outcome and the summary reports n files, the
\* number of successful workers and the number of failed ones, whatever
\* made a file fail.
C3_BatchIndependence ==
    (hpc = "idle" /\ final_files # <<>>) =>
        /\ \A i \in Batch : wpc[i] \in {"true", "false"}
        /\ SummarySent(Len(final_files),
                       Cardinality({i \in Batch : wpc[i] = "true"}),
                       Cardinality({i \in Batch : wpc[i] = "false"}))

Active == {i \in Slots : wpc[i] \in {"get", "body"}}

\* C4: at most max_concurrent_downloads workers are between issuing their
\* GET and the end of their body.
C4_ConcurrencyBound == Cardinality(Active) <= max_concurrent_downloads

\* C4 witness: a batch larger than the limit, the limit reached, a worker
\* kept waiting at the semaphore
C4_Witness ==
    /\ max_concurrent_downloads = 2
    /\ Len(final_files) > max_concurrent_downloads
    /\ Cardinality(Active) = max_concurrent_downloads
    /\ \E i \in Batch : wpc[i] = "sem"

\* C5: after a reply of another identity was handled, no message was sent
\* by the handler, no batch was started and the session is not stopped.
C5_ForeignReplyIgnored ==
    (nHandled > 0 /\ ev_sender # id /\ hpc = "idle") =>
        /\ \A k \in DOMAIN msgs : msgs[k].kind = "timeout"
        /\ final_files = <<>>
        /\ stopCalled = 0
        /\ future # "stopped"

\* C6: after a reply of the originating user with an unrecognized token, the
\* per-token error message was sent, nothing is downloaded and the session
\* is not stopped, so that a later reply is still accepted.
C6_InvalidTokenRewaits ==
    exitPath = "invalid" =>
        /\ \E k \in DOMAIN msgs : msgs[k].kind = "invalid"
        /\ final_files = <<>>
        /\ future # "stopped"

\* the state of the target of worker i when the session started
Target0(i) == disk0[full_path(FileOf(i))]

Target(i) == disk[full_path(FileOf(i))]

\* worker i went through lines 546-562 without an exception
Checked(i) == i \in Batch /\ wpc[i] \notin {"none", "new", "raised"}

\* C7: a worker whose target exists with size S smaller than the expected
\* size E works in append mode, issues one GET with Range: bytes=S-, keeps
\* the S bytes, and when it returns True the file has size E.
C7_ResumeReachesExpected ==
    \A i \in Slots :
        (/\ Checked(i)
         /\ Target0(i).exists
         /\ st_size(Target0(i)) < FileOf(i).size) =>
            /\ mode[i] = "ab"
            /\ headers_range[i] = <<st_size(Target0(i))>>
            /\ reqRange[i] \in {<<>>, <<headers_range[i]>>}
            /\ wpc[i] # "sem" => reqRange[i] = <<headers_range[i]>>
            /\ SubSeq(Target(i).bytes, 1, st_size(Target0(i))) = Target0(i).bytes
            /\ wpc[i] = "true" => st_size(Target(i)) = FileOf(i).size

\* C8: a worker whose target exists with the expected size E > 0 returns
\* True without a GET, without entering the semaphore and without touching
\* the file.
C8_CompleteFileSkipped ==
    \A i \in Slots :
        (/\ Checked(i)
         /\ Target0(i).exists
         /\ st_size(Target0(i)) = FileOf(i).size
         /\ FileOf(i).size > 0) =>
            /\ wpc[i] = "true"
            /\ reqRange[i] = <<>>
            /\ ~acquired[i]
            /\ Target(i) = Target0(i)

\* C8 witness: the worker of a complete file has returned True
C8_Witness ==
    /\ Checked(1)
    /\ Target0(1) = OldFile(MaxSize)
    /\ FileOf(1).size = MaxSize
    /\ wpc[1] = "true"

\* C9: a worker whose target exists with a size larger than the expected
\* size, or with an expected size of 0, has deleted it, asks without a Range
\* header and writes in mode 'wb': no old byte is left.
C9_OversizeRestarts ==
    \A i \in Slots :
        (/\ Checked(i)
         /\ Target0(i).exists
         /\ st_size(Target0(i)) > FileOf(i).size \/ FileOf(i).size = 0) =>
            /\ mode[i] = "wb"
            /\ headers_range[i] = <<>>
            /\ \A k \in DOMAIN reqRange[i] : reqRange[i][k] = <<>>
            /\ \A k \in DOMAIN Target(i).bytes : Target(i).bytes[k] = "new"
            /\ wpc[i] = "sem" => ~Target(i).exists

\* C9 witness: an oversized target was replaced by a complete new download
C9_Witness ==
    /\ Checked(1)
    /\ Target0(1) = OldFile(MaxSize + 1)
    /\ FileOf(1).size = MaxSize
    /\ wpc[1] = "true"
    /\ Target(1).bytes = [k \in 1..MaxSize |-> "new"]

\* C10: whenever selection_waiter has finished handling a reply of the
\* originating user (cancel, summary of a good or bad batch, empty
\* selection, unrecognized token, exception), controller.stop() has run and
\* the session is no longer waiting.
C10_StopOnEveryExit ==
    (nHandled > 0 /\ ev_sender = id /\ hpc = "idle") =>
        /\ exitPath \in {"cancel", "summary", "empty", "invalid", "fatal"}
        /\ stopCalled = nHandled
        /\ future # "pending"

\* C10 witness: the handler was left by the exception of a worker and the
\* session was stopped
C10_Witness ==
    /\ hpc = "idle"
    /\ ev_sender = id
    /\ exitPath = "fatal"
    /\ stopCalled = 1
    /\ future = "stopped"

RECURSIVE SumAttempts(_)
SumAttempts(cs) ==
    IF cs = {} THEN 0
    ELSE LET c == CHOOSE x \in cs : TRUE IN attempt[c] + SumAttempts(cs \ {c})

\* C20: however the attempts of overlapping fetch calls interleave, no
\* rotation is lost or doubled: the cursor equals the number of failed
\* attempts of all calls together, modulo the number of mirrors.
C20_NoLostRotation == current_api_index = SumAttempts(Calls) % base_urls

\* C20 witness: two calls are in flight at once, each after a failed attempt
\* of its own, and they read the cursor at different positions
C20_Witness ==
    /\ \A c \in Calls : fpc[c] = "inflight" /\ attempt[c] >= 1
    /\ \E c, d \in Calls : current_api[c] # current_api[d]
    /\ base_urls > 1

\* C19: in a launched batch no two files have the same target path, and no
\* two workers are writing the same file.
C19_DisjointPaths ==
    \A i, j \in Batch :
        i # j =>
            /\ full_path(FileOf(i)) # full_path(FileOf(j))
            /\ ~(wpc[i] = "body" /\ wpc[j] = "body"
                  /\ full_path(FileOf(i)) = full_path(FileOf(j)))

\* the items below an item of the tree: those of a folder whose children
\* are a list
Kids(item) ==
    IF item.type = "folder" /\ item.children.kind = "list"
    THEN item.children.items ELSE <<>>

\* the positions of a tree: a position is the list of child indices that
\* leads from the top to an item
RECURSIVE PositionsOf(_)
PositionsOf(items) ==
    UNION {{<<i>>} \cup {<<i>> \o q : q \in PositionsOf(Kids(items[i]))} :
              i \in DOMAIN items}

RECURSIVE ItemAt(_, _)
ItemAt(items, q) ==
    IF Len(q) = 1 THEN items[q[1]] ELSE ItemAt(Kids(items[q[1]]), Tail(q))

AudioLeaves(tree) == {q \in PositionsOf(tree) : ItemAt(tree, q).type = "audio"}

\* position q comes before position r in the depth-first traversal that
\* takes the children of every folder in their original order
RECURSIVE Before(_, _)
Before(q, r) ==
    IF q = <<>> THEN r # <<>>
    ELSE IF r = <<>> THEN FALSE
    ELSE q[1] < r[1] \/ (q[1] = r[1] /\ Before(Tail(q), Tail(r)))

\* the place of an audio leaf among the audio leaves of the traversal
Rank(tree, q) == 1 + Cardinality({r \in AudioLeaves(tree) : Before(r, q)})

\* descriptor f describes the item x of the tree
Describes(f, x) == f.title = x.title /\ f.url = x.mediaDownloadUrl /\ f.size = x.size

\* C15: the listing holds audio descriptors only, each with an empty folder
\* path, and every audio leaf of the tree, at any depth, exactly once:
\* every descriptor occurs as often in the listing as there are audio leaves
\* it describes. Folders without children, or with null children, add
\* nothing and raise nothing.
C15_AudioOnlyFlattening ==
    /\ ~Flattened(data).raised
    /\ listings # <<>> =>
          /\ \A n \in DOMAIN files :
                /\ files[n].type = "audio"
                /\ files[n].full_folder_path = <<>>
                /\ Cardinality({m \in DOMAIN files : files[m] = files[n]})
                      = Cardinality({q \in AudioLeaves(data) :
                                        Describes(files[n], ItemAt(data, q))})
          /\ Len(files) = Cardinality(AudioLeaves(data))

\* C15 witness: a tree with an audio leaf inside a folder inside a folder
\* and a leaf that is no audio was listed: one descriptor
C15_Witness ==
    /\ listings # <<>>
    /\ \E q \in AudioLeaves(data) : Len(q) = 3
    /\ \E q \in PositionsOf(data) : ItemAt(data, q).type \in {"image", "text", "other"}
    /\ Len(data) = 1
    /\ Len(files) = 1

\* C16: the n-th descriptor of a listing describes the n-th audio leaf of
\* the depth-first traversal with children in their original order, every
\* listing of the same tree is the same list, and the token I<n> denotes
\* that n-th audio leaf.
C16_OrderStable ==
    /\ \A k \in DOMAIN listings :
          /\ Len(listings[k]) = Cardinality(AudioLeaves(data))
          /\ \A q \in AudioLeaves(data) :
                Describes(listings[k][Rank(data, q)], ItemAt(data, q))
          /\ listings[k] = listings[1]
    /\ listings # <<>> =>
          \A key \in {"I1", "I2", "I3", "I4"} :
              IsKey(key, files) =>
                  \E q \in AudioLeaves(data) :
                      /\ Rank(data, q) = KeyIndex(key)
                      /\ Describes(files[KeyIndex(key)], ItemAt(data, q))

\* C16 witness: the same tree was listed twice; its two different audio
\* leaves lie at different depths, the deeper one first
C16_Witness ==
    /\ Len(listings) = 2
    /\ Len(files) = 2
    /\ files[1] # files[2]
    /\ \E q, r \in AudioLeaves(data) : Before(q, r) /\ Len(q) > Len(r)

\* the descriptors a resolution selected
FileSet(res) == {files[res.final_files[k]] : k \in DOMAIN res.final_files}

\* C13: two replies that name the same tokens in a different order, letter
\* case or spacing resolve the same way, to the same set of descriptors.
C13_OrderIndependent ==
    \A j, k \in DOMAIN resolved :
        (resolved[j].branch = "keys" /\ resolved[k].branch = "keys") =>
            /\ resolved[j].outcome = resolved[k].outcome
            /\ FileSet(resolved[j]) = FileSet(resolved[k])

\* C13 witness: two replies with the same two tokens were resolved; the
\* tokens name different descriptors of the same title, and the two
\* resolutions put them in different orders
C13_Witness ==
    /\ Len(resolved) = 2
    /\ resolved[1].branch = "keys" /\ resolved[2].branch = "keys"
    /\ Len(resolved[1].final_files) = 2
    /\ resolved[1].final_files # resolved[2].final_files
    /\ \E f, g \in FileSet(resolved[1]) : f # g /\ f.title = g.title

\* C14: the reply '*' resolves to every descriptor of the listing, one per
\* key url+title, and to the same set as the reply that names every token.
C14_StarSelectsAll ==
    \A k \in DOMAIN resolved :
        resolved[k].branch = "*" =>
            /\ resolved[k].outcome = "batch"
            /\ FileSet(resolved[k]) = {files[n] : n \in DOMAIN files}
            /\ Len(resolved[k].final_files)
                 = Cardinality({unique_key(files[n]) : n \in DOMAIN files})
            /\ \A j \in DOMAIN resolved :
                  FileSet(resolved[j]) = FileSet(resolved[k])

\* C14 witness: '*' and the reply naming both tokens were resolved for a
\* listing whose two descriptors have different keys
C14_Witness ==
    /\ Len(resolved) = 2
    /\ resolved[1].branch = "*" /\ resolved[2].branch = "keys"
    /\ Len(files) = 2
    /\ Len(resolved[1].final_files) = 2

\* what a command delivers of a work: its track list, a track, the list of
\* its downloadable files
Deliveries == {"track_list", "playback", "listing"}

\* C11: with NSFW disabled, a play, random or download command for an NSFW
\* work never delivers anything of the work, and when the command ends on
\* a denial it said one of the denial messages.
C11_NsfwDenied ==
    (~nsfw /\ work.nsfw /\ command \in {"play", "random", "download"}) =>
        /\ \A k \in DOMAIN sent : sent[k] \notin Deliveries
        /\ (cpc = "idle" /\ runs # <<>>) =>
              /\ runs[Len(runs)].outcome # "delivered"
              /\ runs[Len(runs)].outcome = "denied" =>
                    \E k \in DOMAIN sent : sent[k] \in {"denied_r18", "denied_random"}

\* the three spellings of one identifier
SameWork ==
    {<<"R", "J", "0", "1", "2", "3", "4", "5", "6">>,
     <<"r", "j", "1", "2", "3", "4", "5", "6">>,
     <<"0", "1", "2", "3", "4", "5", "6">>}

\* C12: the requests of the play and download commands made for the inputs
\* RJ0123456, rj123456 and 0123456 all carry one and the same identifier.
C12_OneIdentifier ==
    \A j, k \in DOMAIN requests :
        (requests[j].args \in SameWork /\ requests[k].args \in SameWork) =>
            requests[j].id = requests[k].id

\* C17: no exception leaves a command handler.
C17_NoExceptionEscapes == ~propagated

\* C18: within one command, a not-found or empty result is never reported
\* with the message that reports a fetch that failed on all mirrors.
C18_NotFoundDistinct ==
    \A j, k \in DOMAIN runs :
        (/\ runs[j].command = runs[k].command
         /\ runs[j].outcome = "notfound"
         /\ runs[k].outcome = "failed") =>
            runs[j].message # runs[k].message

\* C26: a worker that returned True for a file of declared size E > 0 has
\* left a file of exactly E bytes on the disk.
C26_SuccessMeansComplete ==
    \A i \in Batch :
        (wpc[i] = "true" /\ FileOf(i).size > 0) =>
            st_size(Target(i)) = FileOf(i).size

\* a message of the given kind was sent to the chat
HasMsg(kind) == \E k \in DOMAIN msgs : msgs[k].kind = kind

\* C24: the timeout message is sent only in a session in which no batch was
\* launched and no cancellation was accepted, and a session never sends
\* both the timeout message and a download summary.
C24_OneTerminalOutcome ==
    HasMsg("timeout") =>
        /\ final_files = <<>>
        /\ ~HasMsg("selected")
        /\ ~HasMsg("cancelled")
        /\ ~HasMsg("summary")

\* C22: every file of a launched batch, and no other, has a worker; a
\* download summary is in the chat only when every worker has returned; it counts every selected file, as
\* successes the workers that returned True, place by place of the
\* submission order, and as failures the remaining files.
C22_SummaryAfterWorkers ==
    /\ \A i \in Slots : i \in Batch <=> wpc[i] # "none"
    /\ \A k \in DOMAIN msgs :
          msgs[k].kind = "summary" =>
              /\ \A i \in Batch : wpc[i] \in {"true", "false"}
              /\ DOMAIN results = DOMAIN final_files
              /\ msgs[k].count = Len(final_files)
              /\ msgs[k].success = Cardinality({i \in Batch : wpc[i] = "true"})
              /\ msgs[k].failure = msgs[k].count - msgs[k].success

\* C22 witness: the summary of a batch of three files of which the second
\* failed
C22_Witness ==
    /\ Len(final_files) = 3
    /\ wpc = <<"true", "false", "true">>
    /\ SummarySent(3, 2, 1)

\* the calls whose attempt fails in the step
FailingCalls == {c \in Calls : fpc[c] = "inflight" /\ attempt'[c] = attempt[c] + 1}

\* C21: a step in which no attempt of a fetch call fails leaves the cursor
\* where it is, be it a successful attempt, the flattening of the tracks, a
\* reply to the session or a step of a download worker; a step in which an
\* attempt fails is the failure of one attempt and moves the cursor by
\* exactly one position.
C21_CursorFrame ==
    [][IF FailingCalls = {}
       THEN current_api_index' = current_api_index /\ attempt' = attempt
       ELSE /\ Cardinality(FailingCalls) = 1
            /\ current_api_index' = (current_api_index + 1) % base_urls]_vars

\* C21 witness: the tracks request failed on mirror 0 and succeeded on
\* mirror 1, where the cursor still is after the track was flattened,
\* selected and its download failed
C21_Witness ==
    /\ TracksFetched
    /\ attempt[1] = 1
    /\ current_api[1] = 1
    /\ current_api_index = 1
    /\ listings # <<>>
    /\ \E i \in Batch : wpc[i] = "false"

\* C25: in a call with max_retries <= len(base_urls), every attempt after
\* the first targets the cyclic successor of the mirror of the attempt
\* before it, so that the attempts of the call run through pairwise distinct
\* mirrors in cyclic order from the cursor the call started at, whatever
\* other calls do in between.
C25_DistinctMirrors ==
    [][\A c \in Calls :
          (/\ max_retries[c] <= base_urls
           /\ fpc[c] = "loop"
           /\ fpc'[c] = "inflight"
           /\ attempt[c] >= 1) =>
              current_api'[c] = (current_api[c] + 1) % base_urls]_vars

\* the text is a number: a non-empty run of decimal digits
IsNumber(text) == text # <<>> /\ \A k \in DOMAIN text : IsDigit(text[k])

\* the message names a track of the list: a number in 1..len(keywords)
NamesTrack(msg) ==
    IsNumber(strip(msg)) /\ Decimal(strip(msg)) \in 1..Len(keywords)

\* C23: a reply of another identity changes nothing of the session; a reply
\* of the originating user that is no number gets the prompt for a number,
\* one that is a number outside 1..len(keywords) the prompt for the range,
\* and both leave the session waiting with nothing played; the session's
\* future is resolved only by the timeout or after _play_track was called
\* with a valid index.
C23_TrackSession ==
    [][/\ (nHandled' = nHandled + 1 /\ ev_sender' # id) =>
              UNCHANGED <<sent, future, cpc, played>>
       /\ (nHandled' = nHandled + 1 /\ ev_sender' = id /\ ~NamesTrack(message_str')) =>
              /\ sent' = Append(sent, IF IsNumber(strip(message_str'))
                                      THEN "out_of_range" ELSE "not_number")
              /\ UNCHANGED <<future, cpc, played>>
       /\ (future = "pending" /\ future' # "pending") =>
              \/ future' = "timeout"
              \/ cpc = "playing" /\ played # <<>>]_vars

====
